---- MODULE Spec2Model ----
(***************************************************************************)
(* Article Ingest Service (src/main.py, v1.3): POST / behind the           *)
(* service_auth_required decorator, validate_article_data, the lazily      *)
(* initialised Firestore client, the single add() to the staging           *)
(* collection and log_structured with its forward to the log aggregator.   *)
(*                                                                         *)
(* Each request is a thread of the WSGI worker; the module-level db_client *)
(* and firebase_admin._apps are the only process-wide program state.  The  *)
(* collaborators (identity verifier, Firebase/Firestore, aggregator) are   *)
(* nondeterministic: each call either returns or raises.                   *)
(*                                                                         *)
(* Strings that the code inspects (title, keyword entries, a string body)  *)
(* are sequences of atoms; the atom " " is whitespace, every other atom is *)
(* a run of non-whitespace characters.  A substring test for a field name  *)
(* is the occurrence of that name as an atom.                              *)
(***************************************************************************)
EXTENDS Integers, Sequences, FiniteSets, TLC

\* ------------------------------------------------------------------ bounds
NumRequests == 2
MaxStrLen == 2
MaxKeywords == 2

Requests == 1..NumRequests

\* ------------------------------------------------------ JSON / Python values
Null == [k |-> "null"]
Bool(b) == [k |-> "bool", v |-> b]
Num(n) == [k |-> "num", v |-> n]
Str(s) == [k |-> "str", v |-> s]
Arr(a) == [k |-> "arr", v |-> a]
Obj(o) == [k |-> "obj", v |-> o]

EmptyObj == Obj(<<>>)

\* a field that a JSON object does not carry (an option of the enumeration only)
Absent == [k |-> "absent"]

SeqsUpTo(S, n) == UNION {[1..m -> S] : m \in 0..n}

\* Python truthiness (`not data`)
Truthy(x) ==
    CASE x.k = "null" -> FALSE
      [] x.k = "bool" -> x.v
      [] x.k = "num" -> x.v # 0
      [] x.k = "str" -> x.v # <<>>
      [] x.k = "arr" -> x.v # <<>>
      [] x.k = "obj" -> DOMAIN x.v # {}

\* `f in data` for the containers on which Python defines it
In(f, x) ==
    CASE x.k = "obj" -> f \in DOMAIN x.v
      [] x.k = "arr" -> \E i \in DOMAIN x.v : x.v[i] = Str(<<f>>)
      [] x.k = "str" -> \E i \in DOMAIN x.v : x.v[i] = f
      [] OTHER -> FALSE

\* dict.get(key, default)
Get(o, key, default) == IF key \in DOMAIN o.v THEN o.v[key] ELSE default

\* str.strip()
RECURSIVE lstrip(_)
lstrip(s) == IF s # <<>> /\ Head(s) = " " THEN lstrip(Tail(s)) ELSE s

RECURSIVE rstrip(_)
rstrip(s) == IF s # <<>> /\ s[Len(s)] = " " THEN rstrip(SubSeq(s, 1, Len(s) - 1)) ELSE s

strip(s) == rstrip(lstrip(s))

\* request.get_json(silent=True): None for no body, an unparsable body and JSON null
get_json(raw) == IF raw.k \in {"nobody", "garbage"} THEN Null ELSE raw

\* ------------------------------------------------------------- validation
required == <<"title", "sourceType", "content">>

MsgNoJson == [text |-> "no JSON data in request body", fields |-> <<>>]
MsgMissing(missing) == [text |-> "required fields missing", fields |-> missing]
MsgContent == [text |-> "content must be an object containing rawText", fields |-> <<>>]
MsgTitleEmpty == [text |-> "title must not be empty", fields |-> <<>>]

Exc(type, msg) == [type |-> type, msg |-> msg]

\* str(e): the message of an exception
str(e) == e.msg

Valid == [out |-> "ok"]
Invalid(m) == [out |-> "invalid", msg |-> m]
Raises(e) == [out |-> "raise", exc |-> e]

Missing(data) == SelectSeq(required, LAMBDA f : ~In(f, data))

\* validate_title without the strip(): a title of whitespace passes
validate_title_unstripped(data) ==
    LET title == Get(data, "title", Str(<<>>))
    IN  IF title.k # "str"
        THEN Raises(Exc("AttributeError", <<"object has no attribute 'strip'">>))
        ELSE IF title.v = <<>> THEN Invalid(MsgTitleEmpty) ELSE Valid

validate_title(data) ==
    LET title == Get(data, "title", Str(<<>>))
    IN  IF title.k # "str"
        THEN Raises(Exc("AttributeError", <<"object has no attribute 'strip'">>))
        ELSE IF strip(title.v) = <<>> THEN Invalid(MsgTitleEmpty) ELSE Valid

validate_content(data) ==
    LET content == Get(data, "content", Null)
    IN  IF content.k # "obj" \/ ~In("rawText", content)
        THEN Invalid(MsgContent)
        ELSE validate_title(data)

validate_article_data(data) ==
    IF ~Truthy(data) THEN Invalid(MsgNoJson)
    ELSE IF data.k \in {"bool", "num"}
    THEN Raises(Exc("TypeError", <<"argument is not iterable">>))
    ELSE IF Missing(data) # <<>> THEN Invalid(MsgMissing(Missing(data)))
    ELSE IF data.k # "obj"
    THEN Raises(Exc("AttributeError", <<"object has no attribute 'get'">>))
    ELSE validate_content(data)

\* ------------------------------------------------------------ article doc
ServerTimestamp == [k |-> "SERVER_TIMESTAMP"]

\* article_doc with the submitted aiGenerated copied instead of the empty map
article_doc_copied(data) ==
    [title |-> Get(data, "title", Null),
     sourceType |-> Get(data, "sourceType", Null),
     description |-> Get(data, "description", Str(<<>>)),
     keywords |-> Get(data, "keywords", Arr(<<>>)),
     content |-> [rawText |-> Get(data.v["content"], "rawText", Null),
                  structuredData |-> Get(data.v["content"], "structuredData", EmptyObj)],
     aiGenerated |-> Get(data, "keywords", Null),
     status |-> "received",
     createdAt |-> ServerTimestamp,
     updatedAt |-> ServerTimestamp]

article_doc(data) ==
    [title |-> Get(data, "title", Null),
     sourceType |-> Get(data, "sourceType", Null),
     description |-> Get(data, "description", Str(<<>>)),
     keywords |-> Get(data, "keywords", Arr(<<>>)),
     content |-> [rawText |-> Get(data.v["content"], "rawText", Null),
                  structuredData |-> Get(data.v["content"], "structuredData", EmptyObj)],
     aiGenerated |-> EmptyObj,
     status |-> "received",
     createdAt |-> ServerTimestamp,
     updatedAt |-> ServerTimestamp]

STAGING_COLLECTION == "staging_articles"

\* ------------------------------------------------------------- responses
NoResponse == [kind |-> "none", status |-> 0]

jsonify(body, status) == [kind |-> "json", status |-> status, body |-> body]

\* an exception that leaves the view function: the handler builds no response,
\* the WSGI layer answers with its own 500 page
Unhandled(e) == [kind |-> "unhandled", status |-> 500, exc |-> e.type]

MsgNoAuthHeader == [text |-> "authorization header missing", fields |-> <<>>]
MsgInvalidToken == [text |-> "invalid auth token", fields |-> <<>>]
MsgInternal == [text |-> "Internal Server Error", fields |-> <<>>]
MsgAccepted == [text |-> "article data accepted", fields |-> <<>>]

Resp401 == jsonify([status |-> "error", message |-> MsgNoAuthHeader], 401)
Resp403 == jsonify([status |-> "error", message |-> MsgInvalidToken], 403)
Resp400(m) == jsonify([status |-> "error", message |-> m], 400)
\* the except branch answering as if the article had been staged
Resp500_as_success(e) ==
    jsonify([status |-> "success", message |-> MsgAccepted, documentId |-> 0], 201)

\* the 500 answer with str(e) as its message
Resp500_with_cause(e) ==
    jsonify([status |-> "error", message |-> [text |-> str(e)[1], fields |-> <<>>]], 500)

\* `except Exception as e`: the answer does not depend on e
Resp500(e) == jsonify([status |-> "error", message |-> MsgInternal], 500)
Resp201(doc_id) ==
    jsonify([status |-> "success", message |-> MsgAccepted, documentId |-> doc_id], 201)

\* ---------------------------------------------------------------- logging
\* log_structured posting a second time when the first POST raised
log_structured_retrying(level, message, ctx, forwarded) ==
    LET log_payload == [severity |-> level, message |-> message, ctx |-> ctx]
    IN  IF forwarded
        THEN << [sink |-> "local", payload |-> log_payload],
                [sink |-> "aggregator", payload |-> log_payload, ok |-> TRUE] >>
        ELSE << [sink |-> "local", payload |-> log_payload],
                [sink |-> "aggregator", payload |-> log_payload, ok |-> FALSE],
                [sink |-> "aggregator", payload |-> log_payload, ok |-> FALSE],
                [sink |-> "local",
                 payload |-> [severity |-> "WARNING",
                              message |-> "Failed to send log to aggregator",
                              ctx |-> [aggregator_url |-> "LOG_AGGREGATOR_URL"]]] >>

\* The events one call of log_structured leaves behind, in program order: the
\* local record, the POST to the aggregator, and the local warning when the
\* POST raised requests.RequestException.
log_structured(level, message, ctx, forwarded) ==
    LET log_payload == [severity |-> level, message |-> message, ctx |-> ctx]
    IN  << [sink |-> "local", payload |-> log_payload],
           [sink |-> "aggregator", payload |-> log_payload, ok |-> forwarded] >>
        \o (IF forwarded THEN <<>>
            ELSE << [sink |-> "local",
                     payload |-> [severity |-> "WARNING",
                                  message |-> "Failed to send log to aggregator",
                                  ctx |-> [aggregator_url |-> "LOG_AGGREGATOR_URL"]]] >>)

\* log_structured letting the failure of the POST reach its caller
after_log_escalated(resp, forwarded) ==
    IF forwarded THEN resp
    ELSE jsonify([status |-> "error", message |-> MsgInternal], 500)

\* what the caller of log_structured goes on to return: log_structured returns
\* None whether the POST succeeded or raised requests.RequestException
after_log(resp, forwarded) == resp

\* ---------------------------------------------------------- collaborators
Returns == [out |-> "ok"]

Tokens == {"tokA"}

None == Null

\* the Authorization header as the request carries it
Headers ==
    {None, Str(<<>>), Str(<<"Bearer">>)}
    \cup {Str(<<scheme, " ", t>>) : scheme \in {"Bearer", "bearer", "Basic"}, t \in Tokens}

\* the header check without the startswith test
NoBearer_any_scheme(auth_header) == ~Truthy(auth_header)

\* `not auth_header or not auth_header.startswith("Bearer ")`
NoBearer(auth_header) ==
    \/ ~Truthy(auth_header)
    \/ ~(Len(auth_header.v) >= 2 /\ auth_header.v[1] = "Bearer" /\ auth_header.v[2] = " ")

\* auth_header.split("Bearer ")[1]
SplitBearer(auth_header) == SubSeq(auth_header.v, 3, Len(auth_header.v))

\* id_token.verify_oauth2_token: returns, raises ValueError (expired, wrong
\* audience, malformed), or raises an error that is no ValueError (wrong
\* issuer: GoogleAuthError; certificates not fetched: TransportError)
VerifyOutcomes(token) ==
    {Returns,
     Raises(Exc("ValueError", <<"Token expired">>)),
     Raises(Exc("ValueError", <<"Token has wrong audience">>)),
     Raises(Exc("ValueError", <<"Wrong number of segments in token: ">> \o token)),
     Raises(Exc("GoogleAuthError", <<"Wrong issuer">>)),
     Raises(Exc("TransportError", <<"could not fetch certificates">>))}

\* `except ValueError`
IsValueError(e) == e.type = "ValueError"

InitializeAppOutcomes == {Returns, Raises(Exc("FirebaseError", <<"cannot load credentials">>))}
AppExists == Exc("ValueError", <<"The default Firebase app already exists">>)
ClientOutcomes == {Returns, Raises(Exc("FirestoreError", <<"project id not determined">>))}
AddOutcomes == {Returns, Raises(Exc("FirestoreError", <<"quota exceeded">>))}

NoClient == [k |-> "None"]
FirestoreClient == [k |-> "client"]

\* ----------------------------------------------------------- request bodies
NoBody == [k |-> "nobody"]
Garbage == [k |-> "garbage"]

\* a JSON object from the value chosen for each field, Absent fields left out
MkObj(choice) == Obj([f \in {g \in DOMAIN choice : choice[g] # Absent} |-> choice[f]])

Strings == {Str(s) : s \in SeqsUpTo({" ", "x"}, MaxStrLen)}

TitleOptions == {Absent, Null, Num(7)} \cup Strings
SourceTypeOptions == {Absent, Str(<<"web">>)}
DescriptionOptions == {Absent, Str(<<"d">>)}
ContentOptions ==
    {Absent, Str(<<"x">>), EmptyObj,
     Obj([rawText |-> Str(<<"x">>)]),
     Obj([rawText |-> Str(<<"x">>), structuredData |-> Obj([h1 |-> Str(<<"x">>)])])}

KeywordEntries == {Str(<<"A">>), Str(<<"A", " ">>), Str(<<"B">>), Str(<<" ">>), Null}
KeywordsOptions ==
    {Absent, Null, Str(<<"A">>)} \cup {Arr(a) : a \in SeqsUpTo(KeywordEntries, MaxKeywords)}

ObjectBodies ==
    {MkObj([title |-> t, sourceType |-> s, description |-> d, keywords |-> kw, content |-> c]) :
        t \in TitleOptions, s \in SourceTypeOptions, d \in DescriptionOptions,
        kw \in KeywordsOptions, c \in ContentOptions}

NonObjectBodies ==
    {NoBody, Garbage, Null, Bool(FALSE), Bool(TRUE), Num(0), Num(5),
     Str(<<>>), Str(<<"x">>), Str(<<"title", " ", "sourceType", " ", "content">>),
     Arr(<<>>), Arr(<<Num(1)>>),
     Arr(<<Str(<<"title">>), Str(<<"sourceType">>), Str(<<"content">>)>>)}

\* every body: the payload specification draws from these
AllBodies == ObjectBodies \cup NonObjectBodies

BaseArticle ==
    [title |-> Str(<<"x">>), sourceType |-> Str(<<"web">>), description |-> Absent,
     keywords |-> Absent, content |-> Obj([rawText |-> Str(<<"x">>)])]

\* one body of each kind (absent, raising, valid, invalid): the concurrent
\* specification draws from these, the payload specification from AllBodies
FewBodies ==
    {NoBody, Num(5),
     MkObj([BaseArticle EXCEPT !.keywords = Arr(<<Str(<<"A">>), Str(<<"B">>)>>)]),
     MkObj([BaseArticle EXCEPT !.title = Str(<<" ">>)])}

\* ------------------------------------------------------------------ state
VARIABLES
    pc,             \* where each request stands in decorated_function / ingest_article
    auth_header,    \* request.headers.get("Authorization")
    token,          \* the bearer value split off the header
    body,           \* the request body as sent
    data,           \* request.get_json(silent=True)
    db,             \* the handle get_firestore_client() returned to the request
    response,       \* what the request was answered with
    log,            \* per request, the log events in program order
    calls,          \* per request, the calls it made and what each returned
    db_client,      \* the module-level Firestore client
    apps,           \* firebase_admin._apps is non-empty
    store,          \* the documents of the document database
    nextId,         \* the identifier the database assigns next
    created         \* per request, the identifiers of the documents its writes left in store

vars == <<pc, auth_header, token, body, data, db, response, log, calls,
          db_client, apps, store, nextId, created>>

Unset == [k |-> "unset"]

Init ==
    /\ pc = [r \in Requests |-> "idle"]
    /\ auth_header = [r \in Requests |-> Unset]
    /\ token = [r \in Requests |-> <<>>]
    /\ body = [r \in Requests |-> Unset]
    /\ data = [r \in Requests |-> Unset]
    /\ db = [r \in Requests |-> NoClient]
    /\ response = [r \in Requests |-> NoResponse]
    /\ log = [r \in Requests |-> <<>>]
    /\ calls = [r \in Requests |-> <<>>]
    /\ db_client = NoClient
    /\ apps = FALSE
    /\ store = {}
    /\ nextId = 1
    /\ created = [r \in Requests |-> {}]

Call(name, result) == [call |-> name, result |-> result]

Respond(r, resp) ==
    /\ response' = [response EXCEPT ![r] = resp]
    /\ pc' = [pc EXCEPT ![r] = "done"]

Goto(r, label) ==
    /\ pc' = [pc EXCEPT ![r] = label]
    /\ UNCHANGED response

Emit(r, events) == log' = [log EXCEPT ![r] = @ \o events]

Record(r, name, result) == calls' = [calls EXCEPT ![r] = Append(@, Call(name, result))]


\* ---------------------------------------------------------------- actions
\* decorated_function, header check: 401 without a log record, or on to the verifier
AuthGate(r) ==
    /\ pc[r] = "idle"
    /\ \E h \in Headers :
        /\ auth_header' = [auth_header EXCEPT ![r] = h]
        /\ IF NoBearer(h)
           THEN /\ Respond(r, Resp401)
                /\ UNCHANGED token
           ELSE /\ token' = [token EXCEPT ![r] = SplitBearer(h)]
                /\ Goto(r, "verify")
    /\ UNCHANGED <<body, data, db, log, calls, db_client, apps, store, nextId, created>>

\* decorated_function, verification: only ValueError is caught and answered 403
VerifyToken(r) ==
    /\ pc[r] = "verify"
    /\ \E o \in VerifyOutcomes(token[r]), forwarded \in BOOLEAN :
        /\ Record(r, "verify_oauth2_token", o)
        /\ IF o.out = "ok"
           THEN /\ Goto(r, "ingest_article")
                /\ UNCHANGED log
           ELSE IF IsValueError(o.exc)
           THEN /\ Emit(r, log_structured("WARNING", MsgInvalidToken.text,
                                          [error |-> str(o.exc)], forwarded))
                /\ Respond(r, after_log(Resp403, forwarded))
           ELSE /\ Respond(r, Unhandled(o.exc))
                /\ UNCHANGED log
    /\ UNCHANGED <<auth_header, token, body, data, db, db_client, apps, store, nextId, created>>

\* ingest_article up to the validation verdict; bodies are drawn from B
ReadAndValidate(r, B) ==
    /\ pc[r] = "ingest_article"
    /\ \E raw \in B, forwarded \in BOOLEAN :
        LET d == get_json(raw)
            verdict == validate_article_data(d)
        IN  /\ body' = [body EXCEPT ![r] = raw]
            /\ data' = [data EXCEPT ![r] = d]
            /\ Record(r, "validate_article_data", verdict)
            /\ CASE verdict.out = "ok" ->
                      /\ Goto(r, "get_firestore_client")
                      /\ UNCHANGED log
                 [] verdict.out = "invalid" ->
                      /\ Emit(r, log_structured("WARNING", "ingest request with invalid data",
                                  [error |-> verdict.msg, received_data |-> d], forwarded))
                      /\ Respond(r, after_log(Resp400(verdict.msg), forwarded))
                 [] verdict.out = "raise" ->
                      /\ Emit(r, log_structured("ERROR", "unexpected error while ingesting",
                                  [error |-> str(verdict.exc), exc_info |-> TRUE,
                                   request_data |-> d], forwarded))
                      /\ Respond(r, after_log(Resp500(verdict.exc), forwarded))
    /\ UNCHANGED <<auth_header, token, db, db_client, apps, store, nextId, created>>

\* get_firestore_client: `if db_client is None`, else `return db_client`
GetClient(r) ==
    /\ pc[r] = "get_firestore_client"
    /\ IF db_client = NoClient
       THEN /\ Goto(r, "check_apps")
            /\ UNCHANGED db
       ELSE /\ db' = [db EXCEPT ![r] = db_client]
            /\ Goto(r, "add")
    /\ UNCHANGED <<auth_header, token, body, data, log, calls, db_client, apps, store, nextId, created>>

\* get_firestore_client: `if not firebase_admin._apps`
CheckApps(r) ==
    /\ pc[r] = "check_apps"
    /\ Goto(r, IF apps THEN "firestore_client" ELSE "initialize_app")
    /\ UNCHANGED <<auth_header, token, body, data, db, log, calls, db_client, apps, store, nextId, created>>

\* an exception inside get_firestore_client: CRITICAL record, re-raise, then
\* ingest_article's `except Exception`: ERROR record and the generic 500
InitFailed(r, e, forwarded1, forwarded2) ==
    /\ Emit(r, log_structured("CRITICAL", "Firebase initialisation failed",
                              [error |-> str(e), exc_info |-> TRUE], forwarded1)
               \o log_structured("ERROR", "unexpected error while ingesting",
                              [error |-> str(e), exc_info |-> TRUE,
                               request_data |-> data[r]], forwarded2))
    /\ Respond(r, after_log(Resp500(e), forwarded1 /\ forwarded2))

\* firebase_admin.initialize_app(): raises when the default app exists by now
InitializeApp(r) ==
    /\ pc[r] = "initialize_app"
    /\ \E o \in (IF apps THEN {Raises(AppExists)} ELSE InitializeAppOutcomes),
          forwarded1 \in BOOLEAN, forwarded2 \in BOOLEAN :
        /\ Record(r, "initialize_app", o)
        /\ IF o.out = "ok"
           THEN /\ apps' = TRUE
                /\ Goto(r, "firestore_client")
                /\ UNCHANGED log
           ELSE /\ InitFailed(r, o.exc, forwarded1, forwarded2)
                /\ UNCHANGED apps
    /\ UNCHANGED <<auth_header, token, body, data, db, db_client, store, nextId, created>>

\* MakeClient with db_client bound before the call is known to have succeeded:
\* a failed initialisation leaves the global set
MakeClient_set_before_checked(r) ==
    /\ pc[r] = "firestore_client"
    /\ \E o \in ClientOutcomes, forwarded1 \in BOOLEAN, forwarded2 \in BOOLEAN :
        /\ Record(r, "firestore.client", o)
        /\ db_client' = FirestoreClient
        /\ IF o.out = "ok"
           THEN /\ db' = [db EXCEPT ![r] = FirestoreClient]
                /\ Emit(r, log_structured("INFO", "Firestore client initialised",
                                          <<>>, forwarded1))
                /\ Goto(r, "add")
           ELSE /\ InitFailed(r, o.exc, forwarded1, forwarded2)
                /\ UNCHANGED db
    /\ UNCHANGED <<auth_header, token, body, data, apps, store, nextId, created>>

\* db_client = firestore.client(), the INFO record, `return db_client`
MakeClient(r) ==
    /\ pc[r] = "firestore_client"
    /\ \E o \in ClientOutcomes, forwarded1 \in BOOLEAN, forwarded2 \in BOOLEAN :
        /\ Record(r, "firestore.client", o)
        /\ IF o.out = "ok"
           THEN /\ db_client' = FirestoreClient
                /\ db' = [db EXCEPT ![r] = FirestoreClient]
                /\ Emit(r, log_structured("INFO", "Firestore client initialised",
                                          <<>>, forwarded1))
                /\ Goto(r, "add")
           ELSE /\ InitFailed(r, o.exc, forwarded1, forwarded2)
                /\ UNCHANGED <<db, db_client>>
    /\ UNCHANGED <<auth_header, token, body, data, apps, store, nextId, created>>

\* AddArticle with the failure raised after the document was written
AddArticle_written_then_failed(r) ==
    /\ pc[r] = "add"
    /\ \E o \in AddOutcomes, forwarded \in BOOLEAN :
        LET doc_id == nextId
            article == article_doc(data[r])
        IN  /\ Record(r, "add", o)
            /\ store' = store \cup {[collection |-> STAGING_COLLECTION,
                                     id |-> doc_id, fields |-> article]}
            /\ nextId' = nextId + 1
            /\ created' = [created EXCEPT ![r] = @ \cup {doc_id}]
            /\ IF o.out = "ok"
               THEN /\ Emit(r, log_structured("INFO", "staged a new article",
                                [document_id |-> doc_id, title |-> article.title], forwarded))
                    /\ Respond(r, after_log(Resp201(doc_id), forwarded))
               ELSE /\ Emit(r, log_structured("ERROR", "unexpected error while ingesting",
                                [error |-> str(o.exc), exc_info |-> TRUE,
                                 request_data |-> data[r]], forwarded))
                    /\ Respond(r, after_log(Resp500(o.exc), forwarded))
    /\ UNCHANGED <<auth_header, token, body, data, db, db_client, apps>>

\* AddArticle with the document stored under a fixed identifier instead of a
\* fresh one of the database
AddArticle_fixed_id(r) ==
    /\ pc[r] = "add"
    /\ \E o \in AddOutcomes, forwarded \in BOOLEAN :
        /\ Record(r, "add", o)
        /\ IF o.out = "ok"
           THEN LET doc_id == 1
                    article == article_doc(data[r])
                IN  /\ store' = store \cup {[collection |-> STAGING_COLLECTION,
                                             id |-> doc_id, fields |-> article]}
                    /\ UNCHANGED nextId
                    /\ created' = [created EXCEPT ![r] = @ \cup {doc_id}]
                    /\ Emit(r, log_structured("INFO", "staged a new article",
                                [document_id |-> doc_id, title |-> article.title], forwarded))
                    /\ Respond(r, after_log(Resp201(doc_id), forwarded))
           ELSE /\ Emit(r, log_structured("ERROR", "unexpected error while ingesting",
                            [error |-> str(o.exc), exc_info |-> TRUE,
                             request_data |-> data[r]], forwarded))
                /\ Respond(r, after_log(Resp500(o.exc), forwarded))
                /\ UNCHANGED <<store, nextId, created>>
    /\ UNCHANGED <<auth_header, token, body, data, db, db_client, apps>>

\* article_doc, db.collection(STAGING_COLLECTION).add(article_doc), and the answer
AddArticle(r) ==
    /\ pc[r] = "add"
    /\ \E o \in AddOutcomes, forwarded \in BOOLEAN :
        /\ Record(r, "add", o)
        /\ IF o.out = "ok"
           THEN LET doc_id == nextId
                    article == article_doc(data[r])
                IN  /\ store' = store \cup {[collection |-> STAGING_COLLECTION,
                                             id |-> doc_id, fields |-> article]}
                    /\ nextId' = nextId + 1
                    /\ created' = [created EXCEPT ![r] = @ \cup {doc_id}]
                    /\ Emit(r, log_structured("INFO", "staged a new article",
                                [document_id |-> doc_id, title |-> article.title], forwarded))
                    /\ Respond(r, after_log(Resp201(doc_id), forwarded))
           ELSE /\ Emit(r, log_structured("ERROR", "unexpected error while ingesting",
                            [error |-> str(o.exc), exc_info |-> TRUE,
                             request_data |-> data[r]], forwarded))
                /\ Respond(r, after_log(Resp500(o.exc), forwarded))
                /\ UNCHANGED <<store, nextId, created>>
    /\ UNCHANGED <<auth_header, token, body, data, db, db_client, apps>>

\* ------------------------------------------------------------ specifications
Step(r, B) ==
    \/ AuthGate(r)
    \/ VerifyToken(r)
    \/ ReadAndValidate(r, B)
    \/ GetClient(r)
    \/ CheckApps(r)
    \/ InitializeApp(r)
    \/ MakeClient(r)
    \/ AddArticle(r)

\* concurrent requests, a few bodies of each kind
Next == \E r \in Requests : Step(r, FewBodies)

Spec == Init /\ [][Next]_vars

\* a single request over every body
NextPayload == Step(1, AllBodies)

SpecPayload == Init /\ [][NextPayload]_vars

TypeOK ==
    /\ pc \in [Requests -> {"idle", "verify", "ingest_article", "get_firestore_client",
                            "check_apps", "initialize_app", "firestore_client", "add", "done"}]
    /\ db_client \in {NoClient, FirestoreClient}
    /\ apps \in BOOLEAN
    /\ nextId \in 1..(NumRequests + 1)

\* ------------------------------------------------------- claim vocabulary
Answered(r) == pc[r] = "done"

CallsOf(r, names) == {i \in DOMAIN calls[r] : calls[r][i].call \in names}

StorageCallNames == {"initialize_app", "firestore.client", "add"}

NoStorageCall(r) == CallsOf(r, StorageCallNames) = {}

NoValidation(r) == CallsOf(r, {"validate_article_data"}) = {}

Authenticated(r) ==
    \E i \in CallsOf(r, {"verify_oauth2_token"}) : calls[r][i].result.out = "ok"

DocsOf(r) == {d \in store : d.id \in created[r]}

HasRead(r) == data[r] # Unset

\* ---------------------------------------------------------------------- C1
\* the header is absent or empty, or its scheme is not Bearer
NotBearerScheme(h) == h = None \/ (h.k = "str" /\ (h.v = <<>> \/ h.v[1] # "Bearer"))

\* C1: a request with no Authorization header, or with one that does not use
\* the Bearer scheme, is answered 401, makes no call to the storage
\* collaborator (no initialisation, no add) and runs no schema validation.
C1_NoBearerIs401 ==
    \A r \in Requests :
        (auth_header[r] # Unset /\ NotBearerScheme(auth_header[r]))
            => /\ Answered(r)
               /\ response[r].kind = "json"
               /\ response[r].status = 401
               /\ NoStorageCall(r)
               /\ NoValidation(r)
               /\ DocsOf(r) = {}

C1_Witness ==
    \E r \in Requests, q \in Requests :
        /\ Answered(r) /\ auth_header[r] = None /\ response[r].status = 401
        /\ Answered(q) /\ auth_header[q] = Str(<<"Basic", " ", "tokA">>)
        /\ response[q].status = 401

\* ---------------------------------------------------------------------- C2
Rejected(r) ==
    \E i \in CallsOf(r, {"verify_oauth2_token"}) :
        /\ calls[r][i].result.out = "raise"
        /\ calls[r][i].result.exc.type \in {"ValueError", "GoogleAuthError"}

RejectionReason(r) ==
    LET i == CHOOSE j \in CallsOf(r, {"verify_oauth2_token"}) : TRUE
    IN  calls[r][i].result.exc.msg

\* the texts a response body carries
BodyTexts(resp) ==
    IF resp.kind = "json"
    THEN {resp.body.message.text}
         \cup {resp.body.message.fields[i] : i \in DOMAIN resp.body.message.fields}
    ELSE {}

\* C2: a request whose bearer value the identity verifier rejects (expired,
\* wrong audience, malformed, untrusted issuer) is answered 403, the body does
\* not carry the verifier's reason, and the request reaches neither schema
\* validation nor storage.
C2_RejectedIs403 ==
    \A r \in Requests :
        Rejected(r)
            => /\ Answered(r)
               /\ response[r].kind = "json"
               /\ response[r].status = 403
               /\ \A i \in DOMAIN RejectionReason(r) :
                      RejectionReason(r)[i] \notin BodyTexts(response[r])
               /\ NoStorageCall(r)
               /\ NoValidation(r)

\* ---------------------------------------------------------------------- C3
Blank(s) == \A i \in DOMAIN s : s[i] = " "

\* a JSON object that lacks a required field, or whose content is no object or
\* has no rawText, or whose title is a string with nothing but whitespace
ShapeViolation(d) ==
    /\ d.k = "obj"
    /\ \/ \E f \in {"title", "sourceType", "content"} : f \notin DOMAIN d.v
       \/ /\ "content" \in DOMAIN d.v
          /\ \/ d.v["content"].k # "obj"
             \/ "rawText" \notin DOMAIN d.v["content"].v
       \/ /\ "title" \in DOMAIN d.v
          /\ d.v["title"].k = "str"
          /\ Blank(d.v["title"].v)

\* C3: an authenticated request whose JSON object lacks title, sourceType or
\* content, or whose content is no object or lacks rawText, or whose title is
\* empty after trimming, is answered 400 and creates no document (storage is
\* never called).
C3_ShapeViolationIs400 ==
    \A r \in Requests :
        (Authenticated(r) /\ HasRead(r) /\ ShapeViolation(data[r]))
            => /\ Answered(r)
               /\ response[r].kind = "json"
               /\ response[r].status = 400
               /\ NoStorageCall(r)
               /\ DocsOf(r) = {}

C3_Witness ==
    \E r \in Requests :
        /\ Answered(r) /\ Authenticated(r) /\ response[r].status = 400
        /\ data[r].k = "obj"
        /\ DOMAIN data[r].v = {"title", "sourceType", "content", "keywords"}
        /\ data[r].v["title"] = Str(<<" ", " ">>)
        /\ data[r].v["content"] = Obj([rawText |-> Str(<<"x">>)])

\* ---------------------------------------------------------------------- C4
\* C4: an authenticated request whose body is absent, unparsable or parses to
\* a JSON value that is no object is answered 400 and writes nothing.
C4_NonObjectIs400 ==
    \A r \in Requests :
        (Authenticated(r) /\ HasRead(r) /\ data[r].k # "obj")
            => /\ Answered(r)
               /\ response[r].kind = "json"
               /\ response[r].status = 400
               /\ NoStorageCall(r)
               /\ DocsOf(r) = {}

\* ---------------------------------------------------------------------- C5
\* a payload of the article shape: the required fields, content an object with
\* rawText, title a string with a non-whitespace character
WellFormed(d) ==
    /\ d.k = "obj"
    /\ {"title", "sourceType", "content"} \subseteq DOMAIN d.v
    /\ d.v["content"].k = "obj"
    /\ "rawText" \in DOMAIN d.v["content"].v
    /\ d.v["title"].k = "str"
    /\ ~Blank(d.v["title"].v)

StorageFailed(r) ==
    \E i \in CallsOf(r, StorageCallNames) : calls[r][i].result.out = "raise"

Accepted(r) == Authenticated(r) /\ HasRead(r) /\ WellFormed(data[r])

\* C5: an authenticated request with a valid payload, when storage does not
\* fail, creates exactly one StagedArticle document, with status "received"
\* and aiGenerated = {}, and is answered 201 with that document's identifier
\* as documentId.
C5_ValidIsStagedOnce ==
    \A r \in Requests :
        (Answered(r) /\ Accepted(r) /\ ~StorageFailed(r))
            => /\ response[r].kind = "json"
               /\ response[r].status = 201
               /\ Cardinality(DocsOf(r)) = 1
               /\ Cardinality(CallsOf(r, {"add"})) = 1
               /\ \A d \in DocsOf(r) :
                      /\ d.collection = "staging_articles"
                      /\ d.fields.status = "received"
                      /\ d.fields.aiGenerated = EmptyObj
                      /\ response[r].body.documentId = d.id

C5_Witness ==
    \E r \in Requests, q \in Requests :
        /\ r # q
        /\ Answered(r) /\ Accepted(r) /\ response[r].status = 201
        /\ Answered(q) /\ Accepted(q) /\ response[q].status = 201
        /\ Cardinality(store) = 2

\* ---------------------------------------------------------------------- C6
TermCollection == "staging_dictionary"

\* the distinct trimmed, non-blank string entries of a keywords value
ExpectedTerms(kw) ==
    IF kw.k = "arr"
    THEN {strip(kw.v[i].v) : i \in {j \in DOMAIN kw.v : kw.v[j].k = "str" /\ ~Blank(kw.v[j].v)}}
    ELSE {}

TermDocsFor(doc_id) ==
    {d \in store : d.collection = TermCollection /\ d.fields.mentionedInArticleIds = <<doc_id>>}

\* C6: an accepted submission creates exactly one TermCandidate document per
\* distinct trimmed, non-blank string entry of keywords, each with
\* mentionedInArticleIds = <<id of the StagedArticle of the same request>>.
C6_OneTermPerKeyword ==
    \A r \in Requests :
        (Answered(r) /\ response[r].status = 201)
            => LET terms == TermDocsFor(response[r].body.documentId)
                   expected == ExpectedTerms(Get(data[r], "keywords", Arr(<<>>)))
               IN  /\ Cardinality(terms) = Cardinality(expected)
                   /\ {d.fields.termName : d \in terms} = expected

\* ---------------------------------------------------------------------- C7
AddFailed(r) == \E i \in CallsOf(r, {"add"}) : calls[r][i].result.out = "raise"

FailureCause(r) ==
    LET i == CHOOSE j \in CallsOf(r, StorageCallNames) : calls[r][j].result.out = "raise"
    IN  calls[r][i].result.exc

ErrorRecorded(r, e) ==
    \E i \in DOMAIN log[r] :
        /\ log[r][i].sink = "local"
        /\ log[r][i].payload.severity = "ERROR"
        /\ log[r][i].payload.ctx.error = str(e)

\* C8: when handle initialisation or the document write fails for an
\* authenticated, valid request, the answer is 500 with the generic message
\* and without the cause, an ERROR record with the cause is emitted, and the
\* write is attempted at most once.
C8_StorageFailureIs500 ==
    \A r \in Requests :
        /\ Cardinality(CallsOf(r, {"add"})) <= 1
        /\ (Answered(r) /\ Accepted(r) /\ StorageFailed(r))
            => /\ response[r].kind = "json"
               /\ response[r].status = 500
               /\ response[r].body.message.text = "Internal Server Error"
               /\ \A i \in DOMAIN str(FailureCause(r)) :
                      str(FailureCause(r))[i] \notin BodyTexts(response[r])
               /\ ErrorRecorded(r, FailureCause(r))
               /\ DOMAIN response[r].body = {"status", "message"}

C8_Witness ==
    \E r \in Requests, q \in Requests :
        /\ Answered(r) /\ Accepted(r) /\ AddFailed(r) /\ response[r].status = 500
        /\ Answered(q) /\ Accepted(q) /\ ~AddFailed(q) /\ StorageFailed(q)
        /\ response[q].status = 500

\* ---------------------------------------------------------------------- C9
Forwards(r) == {i \in DOMAIN log[r] : log[r][i].sink = "aggregator"}

\* what the collaborators other than the aggregator gave a request: the result
\* of each call, a successful step of the handle's initialisation left out (it
\* gives the request the handle another request finds already set)
Given(r) ==
    SelectSeq(calls[r],
              LAMBDA c : ~(c.call \in {"initialize_app", "firestore.client"}
                           /\ c.result.out = "ok"))

\* everything a request is given except what the aggregator does
SameInputs(r, q) ==
    /\ auth_header[r] = auth_header[q]
    /\ body[r] = body[q]
    /\ Given(r) = Given(q)

\* the answer without the identifier the database chose, and the documents written
Outcome(r) ==
    [status |-> response[r].status,
     kind |-> response[r].kind,
     envelope |-> IF response[r].kind = "json"
                  THEN [f \in DOMAIN response[r].body \ {"documentId"} |-> response[r].body[f]]
                  ELSE <<>>,
     ownId |-> IF response[r].kind = "json" /\ "documentId" \in DOMAIN response[r].body
               THEN created[r] = {response[r].body.documentId}
               ELSE created[r] = {},
     written |-> {d.fields : d \in DocsOf(r)}]

\* C9: what the aggregator does has no influence on a request: two requests
\* given the same header, body and collaborator results (aggregator aside)
\* end with the same status, the same body and the same documents written,
\* whatever became of their forwards; an ingest whose other collaborators all
\* succeed is answered 201 with its documentId.
C9_AggregatorHasNoInfluence ==
    /\ \A r \in Requests, q \in Requests :
           (Answered(r) /\ Answered(q) /\ SameInputs(r, q)) => Outcome(r) = Outcome(q)
    /\ \A r \in Requests :
           (Answered(r) /\ Accepted(r) /\ ~StorageFailed(r))
               => /\ response[r].status = 201
                  /\ created[r] = {response[r].body.documentId}

C9_Witness ==
    \E r \in Requests, q \in Requests :
        /\ r # q /\ Answered(r) /\ Answered(q) /\ SameInputs(r, q)
        /\ response[r].status = 201 /\ response[q].status = 201
        /\ Forwards(r) # {} /\ \A i \in Forwards(r) : log[r][i].ok
        /\ Forwards(q) # {} /\ \A i \in Forwards(q) : ~log[q][i].ok

\* --------------------------------------------------------------------- C10
\* C10: every failure path of POST / ends in a JSON envelope {status, message}
\* with a status code among 401, 403, 400 and 500; no failure of the identity
\* verifier, the storage or the aggregator leaves the handler unhandled.
C10_FailuresAreEnvelopes ==
    \A r \in Requests :
        (Answered(r) /\ response[r].status # 201)
            => /\ response[r].kind = "json"
               /\ DOMAIN response[r].body = {"status", "message"}
               /\ response[r].body.status = "error"
               /\ response[r].status \in {401, 403, 400, 500}

\* --------------------------------------------------------------------- C11
\* C11: two authenticated submissions of the same valid payload, for which
\* storage does not fail, stage two distinct StagedArticle documents with two
\* different identifiers, and each is answered 201 with the identifier of its
\* own document.
C11_NotIdempotent ==
    \A r \in Requests, q \in Requests :
        (/\ r # q
         /\ Answered(r) /\ Accepted(r) /\ ~StorageFailed(r)
         /\ Answered(q) /\ Accepted(q) /\ ~StorageFailed(q)
         /\ body[r] = body[q])
            => /\ response[r].status = 201
               /\ response[q].status = 201
               /\ response[r].body.documentId # response[q].body.documentId
               /\ created[r] = {response[r].body.documentId}
               /\ created[q] = {response[q].body.documentId}
               /\ Cardinality(DocsOf(r) \cup DocsOf(q)) = 2
               /\ {d.fields : d \in DocsOf(r)} = {d.fields : d \in DocsOf(q)}

C11_Witness ==
    \E r \in Requests, q \in Requests :
        /\ r # q /\ body[r] = body[q]
        /\ Answered(r) /\ Accepted(r) /\ response[r].status = 201
        /\ Answered(q) /\ Accepted(q) /\ response[q].status = 201
        /\ response[r].body.documentId # response[q].body.documentId
        /\ Cardinality(store) = 2

\* --------------------------------------------------------------------- C12
\* a request is inside the initialisation block of get_firestore_client
Initialising(r) == pc[r] \in {"check_apps", "initialize_app", "firestore_client"}

\* the calls of firestore.client() that returned a handle, over all requests
HandlesMade ==
    {<<r, i>> \in Requests \X (1..8) :
        /\ i \in CallsOf(r, {"firestore.client"})
        /\ calls[r][i].result.out = "ok"}

\* C12: under any interleaving the shared handle is created at most once:
\* two requests are never both inside the handle's initialisation, and
\* db_client is assigned by at most one of them.
C12_HandleCreatedOnce ==
    /\ Cardinality({r \in Requests : Initialising(r)}) <= 1
    /\ Cardinality(HandlesMade) <= 1

\* --------------------------------------------------------------------- C13
\* the local warning about a failed forward (not a record of the reporter's caller)
IsForwardWarning(ev) ==
    ev.sink = "local" /\ ev.payload.message = "Failed to send log to aggregator"

\* the local records the callers of the reporter asked for
Records(r) == {i \in DOMAIN log[r] : log[r][i].sink = "local" /\ ~IsForwardWarning(log[r][i])}

\* C13: every call of the reporter emits its record locally before the forward
\* is attempted, whether or not the aggregator is reachable, and forwards that
\* record at most once: a failed forward is followed by a local warning only,
\* never by another forward.
C13_LocalFirstForwardOnce ==
    \A r \in Requests :
        /\ \A i \in Forwards(r) :
               /\ i - 1 \in Records(r)
               /\ log[r][i - 1].payload = log[r][i].payload
               /\ i + 1 \in DOMAIN log[r] => log[r][i + 1].sink = "local"
               /\ ~log[r][i].ok =>
                      /\ i + 1 \in DOMAIN log[r]
                      /\ IsForwardWarning(log[r][i + 1])
                      /\ i + 2 \in DOMAIN log[r] => i + 2 \in Records(r)
        /\ \A i \in Records(r) : i + 1 \in Forwards(r)
        /\ Cardinality(Forwards(r)) = Cardinality(Records(r))

C13_Witness ==
    \E r \in Requests :
        /\ \E i \in Forwards(r) : log[r][i].ok
        /\ \E i \in Forwards(r) : ~log[r][i].ok /\ IsForwardWarning(log[r][i + 1])

\* --------------------------------------------------------------------- C14
RecordsOfSeverity(r, level) == {i \in Records(r) : log[r][i].payload.severity = level}

\* C14: every request that ends in a failure (401, 403, 400 or 500) has
\* emitted at least one structured record by the time it is answered: a
\* WARNING with the offending payload for a schema-invalid payload, an ERROR
\* for a storage failure.
C14_FailuresAreReported ==
    \A r \in Requests :
        (Answered(r) /\ response[r].status # 201)
            => /\ Records(r) # {}
               /\ response[r].status = 400 =>
                      \E i \in RecordsOfSeverity(r, "WARNING") :
                          log[r][i].payload.ctx.received_data = data[r]
               /\ StorageFailed(r) =>
                      \E i \in RecordsOfSeverity(r, "ERROR") :
                          log[r][i].payload.ctx.error = str(FailureCause(r))

\* --------------------------------------------------------------------- C15
\* the submitted value of a field, or the default when the field is absent
Submitted(o, key, default) == IF key \in DOMAIN o.v THEN o.v[key] ELSE default

\* C15: the StagedArticle of an accepted submission has description "" when
\* absent, keywords empty when absent or null, content.structuredData {} when
\* absent, and every other field as submitted.
C15_DefaultsApplied ==
    \A r \in Requests :
        (Answered(r) /\ response[r].status = 201)
            => \A d \in DocsOf(r) :
                   /\ d.fields.title = data[r].v["title"]
                   /\ d.fields.sourceType = data[r].v["sourceType"]
                   /\ d.fields.description = Submitted(data[r], "description", Str(<<>>))
                   /\ d.fields.keywords =
                          IF Submitted(data[r], "keywords", Null) = Null
                          THEN Arr(<<>>)
                          ELSE data[r].v["keywords"]
                   /\ d.fields.content.rawText = data[r].v["content"].v["rawText"]
                   /\ d.fields.content.structuredData =
                          Submitted(data[r].v["content"], "structuredData", EmptyObj)

\* --------------------------------------------------------------------- C16
AddReturned(r) == \E i \in CallsOf(r, {"add"}) : calls[r][i].result.out = "ok"

\* C16: a request is answered 201 only after its own storage write has
\* returned successfully; a request that has not got that far, or whose write
\* failed, has no success response.
C16_SuccessOnlyAfterCommit ==
    \A r \in Requests :
        /\ response[r].status = 201 =>
               /\ AddReturned(r)
               /\ response[r].body.documentId \in created[r]
               /\ \E d \in store : d.id = response[r].body.documentId
        /\ ~AddReturned(r) => response[r].status # 201
        /\ ~Answered(r) => response[r] = NoResponse

C16_Witness ==
    \E r \in Requests, q \in Requests :
        /\ Answered(r) /\ response[r].status = 201 /\ AddReturned(r)
        /\ Answered(q) /\ AddFailed(q) /\ response[q].status = 500

\* --------------------------------------------------------------------- C17
\* C17: a request answered with a status other than 201 has added no document:
\* storage holds only the documents of the requests answered 201.
C17_FailureWritesNothing ==
    /\ \A r \in Requests :
           (Answered(r) /\ response[r].status # 201)
               => /\ created[r] = {}
                  /\ DocsOf(r) = {}
    /\ \A d \in store :
           \E q \in Requests : response[q].status = 201 /\ d.id \in created[q]

C17_Witness ==
    \E r \in Requests, q \in Requests :
        /\ Answered(r) /\ response[r].status = 400 /\ DocsOf(r) = {}
        /\ Answered(q) /\ response[q].status = 201
        /\ store = DocsOf(q) /\ Cardinality(store) = 1

\* --------------------------------------------------------------------- C18
InitRaised(r) ==
    \E i \in CallsOf(r, {"initialize_app", "firestore.client"}) :
        calls[r][i].result.out = "raise"

\* C18: a failed initialisation does not set the shared handle (db_client is
\* set exactly when some firestore.client() has returned), the request that
\* met the failure is answered 500 without a write, and a request writes only
\* with a handle it got from a successful initialisation.
C18_FailedInitLeavesHandleUnset ==
    /\ db_client = FirestoreClient <=> HandlesMade # {}
    /\ \A r \in Requests :
           /\ InitRaised(r) =>
                  /\ Answered(r)
                  /\ response[r] = Resp500(FailureCause(r))
                  /\ db[r] = NoClient
                  /\ CallsOf(r, {"add"}) = {}
           /\ CallsOf(r, {"add"}) # {} => db[r] = FirestoreClient /\ HandlesMade # {}

\* a first initialisation failed and a later attempt made the handle and staged
C18_Witness ==
    \E r \in Requests, q \in Requests :
        /\ Answered(r) /\ response[r].status = 500
        /\ \E i \in CallsOf(r, {"initialize_app"}) :
               /\ calls[r][i].result.out = "raise"
               /\ calls[r][i].result.exc.type = "FirebaseError"
        /\ Answered(q) /\ response[q].status = 201
        /\ \E i \in CallsOf(q, {"initialize_app"}) : calls[q][i].result.out = "ok"
        /\ \E i \in CallsOf(q, {"firestore.client"}) : calls[q][i].result.out = "ok"

\* --------------------------------------------------------------------- C19
\* the text of str(e) a log record carries in its error field (the record of a
\* schema-invalid payload carries the validation message there instead)
ErrorText(payload) ==
    IF /\ payload.severity # "INFO"
       /\ "error" \in DOMAIN payload.ctx
       /\ "received_data" \notin DOMAIN payload.ctx
    THEN payload.ctx.error
    ELSE <<>>

\* C19: no log record, local or forwarded to the aggregator, contains the raw
\* bearer token of the request's Authorization header.
C19_NoTokenInLogs ==
    \A r \in Requests :
        \A i \in DOMAIN log[r] :
            \A j \in DOMAIN ErrorText(log[r][i].payload), k \in DOMAIN token[r] :
                ErrorText(log[r][i].payload)[j] # token[r][k]

====
